---- MODULE Spec2Model ----
(***************************************************************************)
(* CoreMint: the user repository (lib/db/user.ts) driven by concurrent     *)
(* request handlers, the nonce store of the wallet login protocol, and the *)
(* route handlers of app/api (nfts, nfts/mint, collections).               *)
(*                                                                         *)
(* Every `await prisma....` is one atomic database operation; a function   *)
(* with two awaits (addConnectionHistory) is two steps, and other          *)
(* requests may run between them.                                          *)
(***************************************************************************)
EXTENDS Integers, Sequences, FiniteSets, TLC

\* ---------------------------------------------------------------- bounds
MaxUsers == 2           \* user records the collection may hold
MaxRequests == 3        \* login requests in one run of Spec
MaxHistoryCalls == 12   \* repository calls in one run of SpecHistory
MaxCreateCalls == 2     \* of which the first so many may be createUser calls
MaxOverlaps == 2        \* addConnectionHistory calls started while another one is between its awaits
MaxFailures == 1        \* storage failures injected in one run
MaxTime == 1            \* last tick of the clock in Spec
MaxNonces == 2          \* nonces issued in one run of SpecNonce
MaxAttempts == 3        \* consumeNonce attempts in one run of SpecNonce
MaxNonceTime == 3       \* last tick of the clock in SpecNonce
MaxEntryCalls == 4       \* calls in one run of SpecEntry
MaxRecords == 2         \* NFT and collection records created in one run of SpecRoutes

\* ------------------------------------------------------ program constants
HistoryLimit == 10      \* .slice(-10)

Procs == {"h1", "h2"}   \* request handlers running concurrently
Addrs == {"SP1", "SP2"}
UserIds == 1..MaxUsers
NoUser == 0             \* findUnique's null
NoTime == -1            \* lastLoginAt DateTime? unset
HistoryUsers == {1}     \* the users the direct calls of SpecHistory address

VARIABLES
    users,      \* the users collection: users[id] is the record with that id
    now,        \* the server clock read by new Date()
    pc,         \* pc[p]: the await handler p is about to run, or "idle"
    local,      \* local[p]: the running request's arguments and what it has read
    last,       \* last[p]: the request p finished most recently and its outcome
    nRequests,  \* requests and calls started so far
    nFailures,  \* storage failures so far
    appendLog,  \* appendLog[id]: entries of the addConnectionHistory calls that returned, in order
    loginCalls, \* loginCalls[id]: updateUserLogin calls that returned
    nOverlaps,  \* addConnectionHistory calls that started between the two awaits of another one
    nonceStore, \* nonceStore[a]: the nonce record stored for wallet address a, or NoNonce
    nonceSeq,   \* nonces issued so far; the next fresh nonce is nonceSeq + 1
    issuedLog,  \* issuedLog[a]: the nonces issued for a, in order
    lastAttempt, \* the latest consumeNonce attempt, what it found and its outcome
    nAttempts,  \* consumeNonce attempts so far
    successes,  \* successes[n]: consumeNonce attempts that succeeded on nonce n
    failures,   \* failures[a]: outcomes of the failed attempts on a since its nonce was issued
    nfts,       \* the nfts collection, in order of creation
    collections, \* the collections collection, in order of creation
    transactions, \* the transactions collection, in order of creation
    rpc,        \* rpc[p]: the await the mint route run by handler p is about to run, or "idle"
    rlocal,     \* rlocal[p]: the running mint request: caller, body, reads and writes so far
    lastResp    \* the response sent by the step just taken, with the request it answers

repoVars == <<users, pc, local, last, nRequests, nFailures, appendLog, loginCalls, nOverlaps>>
nonceVars == <<nonceStore, nonceSeq, issuedLog, lastAttempt, nAttempts, successes, failures>>
routeVars == <<nfts, collections, transactions, rpc, rlocal, lastResp>>
vars == <<repoVars, now, nonceVars, routeVars>>

\* ------------------------------------------------------------- helpers
Min(a, b) == IF a < b THEN a ELSE b

\* Array.prototype.slice(-n): the last n elements, all of them when there are fewer.
SliceLast(s, n) == SubSeq(s, Len(s) - Min(Len(s), n) + 1, Len(s))

\* { timestamp: new Date().toISOString(), ...connectionData }: the caller's timestamp wins
HistoryEntryClientWins(connectionData, t) ==
    [k \in (DOMAIN connectionData) \cup {"timestamp"} |->
        IF k \in DOMAIN connectionData THEN connectionData[k] ELSE t]

\* { ...connectionData, timestamp: new Date().toISOString() }
HistoryEntry(connectionData, t) ==
    [k \in (DOMAIN connectionData) \cup {"timestamp"} |->
        IF k = "timestamp" THEN t ELSE connectionData[k]]

\* [...history, entry] with the slice left out
UpdatedHistoryNoSlice(history, connectionData, t) ==
    Append(history, HistoryEntry(connectionData, t))

\* [...history, entry].slice(0, 10): keeps the oldest entries
UpdatedHistoryKeepFirst(history, connectionData, t) ==
    SubSeq(Append(history, HistoryEntry(connectionData, t)), 1,
           Min(Len(history) + 1, HistoryLimit))

\* [...history, entry].slice(-10)
UpdatedHistory(history, connectionData, t) ==
    SliceLast(Append(history, HistoryEntry(connectionData, t)), HistoryLimit)

\* prisma.user.findUnique({ where: { walletAddress } }): the id, or NoUser
findUserByWalletAddress(walletAddress) ==
    IF \E id \in DOMAIN users : users[id].walletAddress = walletAddress
    THEN CHOOSE id \in DOMAIN users : users[id].walletAddress = walletAddress
    ELSE NoUser

\* prisma.user.findUnique({ where: { id } })
getUserById(userId) == IF userId \in DOMAIN users THEN userId ELSE NoUser

\* a users collection without the unique index
NoUniqueIndex(walletAddress) == FALSE

\* the unique index on walletAddress rejects a second record for an address
UniqueViolation(walletAddress) ==
    \E id \in DOMAIN users : users[id].walletAddress = walletAddress

\* the record prisma.user.create stores: loginCount @default(0), lastLoginAt null
NewUser(walletAddress) ==
    [walletAddress |-> walletAddress, loginCount |-> 0,
     lastLoginAt |-> NoTime, connectionHistory |-> <<>>]

\* data: { lastLoginAt: new Date(), loginCount: 1 }
LoginUpdateSet(u, t) == [u EXCEPT !.lastLoginAt = t, !.loginCount = 1]

\* data: { lastLoginAt: new Date(), loginCount: { decrement: 1 } }
LoginUpdateDecrement(u, t) == [u EXCEPT !.lastLoginAt = t, !.loginCount = @ - 1]

\* data: { lastLoginAt: new Date(), loginCount: { increment: 1 } }
LoginUpdate(u, t) == [u EXCEPT !.lastLoginAt = t, !.loginCount = @ + 1]

\* data: { connectionHistory: updatedHistory, loginCount: { increment: 1 } }
HistoryUpdateCountsLogin(u, updatedHistory) ==
    [u EXCEPT !.connectionHistory = updatedHistory, !.loginCount = @ + 1]

\* an update that replaces the document by one holding the history alone
HistoryUpdateReplace(u, updatedHistory) ==
    [NewUser("") EXCEPT !.connectionHistory = updatedHistory]

\* data: { connectionHistory: updatedHistory }
HistoryUpdate(u, updatedHistory) == [u EXCEPT !.connectionHistory = updatedHistory]

\* what a client may send as connection metadata with request number n
ConnectionDatas(n) == { [req |-> n] }

\* connection metadata with more attributes, a timestamp of the caller's among them
ClientTime == 99
EntryDatas(n) ==
    { [req |-> n], [req |-> n, timestamp |-> ClientTime],
      [req |-> n, ip |-> "10.0.0.1", timestamp |-> ClientTime] }

\* a handler's request: what was asked and what it has read and done so far
NoLocal ==
    [kind |-> "none", walletAddress |-> "", userId |-> NoUser, connectionData |-> <<>>,
     history |-> <<>>, found |-> FALSE, incremented |-> FALSE]
NoRequest ==
    [kind |-> "none", userId |-> NoUser, err |-> "none", found |-> FALSE,
     incremented |-> FALSE, appended |-> FALSE, entry |-> <<>>, data |-> <<>>]

\* request r of p ends, by returning (err = "none") or by throwing err
Finish(p, r, err, appended) ==
    /\ last' = [last EXCEPT ![p] =
           [kind |-> r.kind, userId |-> r.userId, err |-> err, found |-> r.found,
            incremented |-> r.incremented, appended |-> appended,
            entry |-> IF appended THEN HistoryEntry(r.connectionData, now) ELSE <<>>,
            data |-> IF appended THEN r.connectionData ELSE <<>>]]
    /\ pc' = [pc EXCEPT ![p] = "idle"]
    /\ local' = [local EXCEPT ![p] = NoLocal]

\* request r of p goes on to its next await
Goto(p, r, label) ==
    /\ pc' = [pc EXCEPT ![p] = label]
    /\ local' = [local EXCEPT ![p] = r]
    /\ UNCHANGED last

\* ------------------------------------------------------------ nonce store
NonceTTL == 1           \* ticks a nonce stays valid after issuedAt
NoNonce ==
    [nonce |-> 0, message |-> <<>>, issuedAt |-> 0, expiresAt |-> 0, consumed |-> FALSE]
NoAttempt ==
    [walletAddress |-> "", message |-> <<>>, outcome |-> "none", stored |-> NoNonce,
     at |-> 0, latest |-> 0, after |-> {}]

\* Message Builder render(walletAddress, nonce): a fixed template embedding both
Render(walletAddress, nonce) ==
    <<"Sign this message to authenticate: nonce=", nonce, " address=", walletAddress>>

\* the record issueNonce stores
NonceRecord(walletAddress, nonce, t) ==
    [nonce |-> nonce, message |-> Render(walletAddress, nonce),
     issuedAt |-> t, expiresAt |-> t + NonceTTL, consumed |-> FALSE]

\* an expiry test that only fires in the tick right after expiresAt
ExpiredJustAfter(r, t) == t = r.expiresAt + 1

\* a nonce is never usable after expiresAt
Expired(r, t) == t > r.expiresAt

\* issueNonce that leaves a prior unconsumed nonce of the address in place
StoreNonceKeepPrior(store, walletAddress, r) ==
    IF store[walletAddress] # NoNonce /\ ~store[walletAddress].consumed
    THEN store
    ELSE [store EXCEPT ![walletAddress] = r]

\* issueNonce overwrites any prior nonce of the address
StoreNonce(store, walletAddress, r) == [store EXCEPT ![walletAddress] = r]

\* a successful consumeNonce that forgets to mark the record
MarkConsumedForgotten(store, walletAddress) == store

\* on success the record is marked consumed, in the same atomic step as the checks
MarkConsumed(store, walletAddress) == [store EXCEPT ![walletAddress].consumed = TRUE]

\* consumeNonce(walletAddress, presentedMessage): "ok" or the failure
ConsumeOutcome(store, walletAddress, presentedMessage, t) ==
    LET r == store[walletAddress]
    IN IF r = NoNonce THEN "NoSuchChallenge"
       ELSE IF Expired(r, t) THEN "ChallengeExpired"
       ELSE IF presentedMessage # r.message THEN "ChallengeMismatch"
       ELSE IF r.consumed THEN "ChallengeAlreadyUsed"
       ELSE "ok"

\* the messages a client can present: every challenge rendered so far, for any address
PresentableMessages == { Render(a, n) : a \in Addrs, n \in 1..nonceSeq }

Latest(log) == IF Len(log) = 0 THEN 0 ELSE log[Len(log)]

\* ------------------------------------------------------------- API routes
RouteUsers == {"u1", "u2"}      \* the userId of a verified token
NoAuth == "null"                \* verifyAuth yielding no user
AuthResults == RouteUsers \cup {NoAuth}
NoValue == ""                   \* an optional column left null

\* the id storage assigns to the i-th record of a collection
NftId(i) == "n" \o ToString(i)
CollectionId(i) == "c" \o ToString(i)

\* a request body: the text is no JSON, or it is the object with these fields
Malformed == [malformed |-> TRUE]
With(body, field, value) ==
    [f \in (DOMAIN body) \cup {field} |-> IF f = field THEN value ELSE body[f]]
Has(body, field) == field \in DOMAIN body

\* request.json(): throws a SyntaxError on text that is no JSON
JsonParses(body) == ~Has(body, "malformed")

\* z.string().min(1)
NonEmptyString(body, field) == Has(body, field) /\ body[field] # ""

\* z.string().url()
IsUrl(s) == s \in {"https://img/1.png"}

\* (val) => typeof val === "string" && val.trim().length === 0 ? undefined : val
Blank(s) == s \in {"", " "}

\* createNFTSchema.parse(body) succeeds
CreateNFTValid(body) ==
    /\ NonEmptyString(body, "name")
    /\ Has(body, "image") /\ IsUrl(body.image)
    /\ Has(body, "metadata")

\* the collectionId createNFTSchema.parse(body) yields: undefined when absent or blank
ParsedCollectionId(body) ==
    IF Has(body, "collectionId") /\ ~Blank(body.collectionId) THEN body.collectionId ELSE NoValue

\* createCollectionSchema.parse(body) succeeds
CreateCollectionValid(body) == NonEmptyString(body, "name")

\* isPublic: z.boolean().default(true)
ParsedIsPublic(body) == IF Has(body, "isPublic") THEN body.isPublic ELSE TRUE

\* mintNFTSchema.parse(body) succeeds
MintValid(body) ==
    /\ NonEmptyString(body, "nftId") /\ NonEmptyString(body, "txHash")
    /\ NonEmptyString(body, "contractAddress") /\ NonEmptyString(body, "tokenId")

\* the bodies a client may post to /api/nfts
NftBase == [name |-> "art", image |-> "https://img/1.png", metadata |-> "{}"]
NftBodies ==
    { Malformed, NftBase,
      [NftBase EXCEPT !.name = ""], [NftBase EXCEPT !.image = "img"],
      With(NftBase, "ownerId", "u2") }

\* bodies of POST /api/nfts that name a collection on record, or a blank one
AttachBodies ==
    { NftBase, With(NftBase, "collectionId", " ") }
    \cup { With(NftBase, "collectionId", CollectionId(i)) : i \in 1..Len(collections) }

\* the bodies a client may post to /api/collections
CollectionBodies ==
    { Malformed, [name |-> ""], [name |-> "set"], [name |-> "set", isPublic |-> FALSE],
      [name |-> "set", ownerId |-> "u2"] }

\* the bodies a client may post to /api/nfts/mint
MintReports == { [txHash |-> "0xa", tokenId |-> "1"], [txHash |-> "0xb", tokenId |-> "2"] }
MintBodies ==
    { Malformed, [nftId |-> NftId(1), txHash |-> "0xa", contractAddress |-> "SP.nft", tokenId |-> ""] }
    \cup { [nftId |-> NftId(i), txHash |-> m.txHash, contractAddress |-> "SP.nft",
            tokenId |-> m.tokenId] : i \in 1..(Len(nfts) + 1), m \in MintReports }

Reverse(s) == [i \in 1..Len(s) |-> s[Len(s) + 1 - i]]

\* createNFT({ ownerId: user.userId, ...body }): the body's fields come last and win
NftDataSpread(userId, body) ==
    [ownerId |-> IF Has(body, "ownerId") THEN body.ownerId ELSE userId,
     collectionId |-> ParsedCollectionId(body)]

\* the argument of createNFT: the fields createNFTSchema.parse(body) yields, picked by
\* name, and ownerId: user.userId
NftData(userId, body) ==
    [ownerId |-> userId, collectionId |-> ParsedCollectionId(body)]

\* prisma.nFT.create: isMinted @default(false), tokenId, contractAddress and mintedAt null
createNFT(ownerId, collectionId) ==
    [id |-> NftId(Len(nfts) + 1), name |-> "art", ownerId |-> ownerId,
     collectionId |-> collectionId, isMinted |-> FALSE, tokenId |-> NoValue,
     contractAddress |-> NoValue, mintedAt |-> NoTime]

\* a findMany without its where clause
getNFTsOfEveryOwner(ownerId) == Reverse(nfts)

\* prisma.nFT.findMany({ where: { ownerId }, orderBy: { createdAt: "desc" } })
getNFTsByOwner(ownerId) == Reverse(SelectSeq(nfts, LAMBDA n : n.ownerId = ownerId))

\* prisma.nFT.findUnique({ where: { id } }): the position of the record, or 0
getNFTById(id) ==
    IF \E i \in 1..Len(nfts) : nfts[i].id = id
    THEN CHOOSE i \in 1..Len(nfts) : nfts[i].id = id
    ELSE 0

\* data: { isMinted: true, tokenId, contractAddress } without mintedAt
updateNFTMintStatusNoDate(nft, tokenId, contractAddress, t) ==
    [nft EXCEPT !.isMinted = TRUE, !.tokenId = tokenId, !.contractAddress = contractAddress]

\* data: { isMinted: true, tokenId, contractAddress, mintedAt: new Date() }
updateNFTMintStatus(nft, tokenId, contractAddress, t) ==
    [nft EXCEPT !.isMinted = TRUE, !.tokenId = tokenId,
                !.contractAddress = contractAddress, !.mintedAt = t]

\* prisma.collection.create
createCollection(ownerId, isPublic) ==
    [id |-> CollectionId(Len(collections) + 1), name |-> "set", ownerId |-> ownerId,
     isPublic |-> isPublic]

\* prisma.collection.findMany({ where: { ownerId }, orderBy: { createdAt: "desc" } })
getCollectionsByOwner(ownerId) ==
    Reverse(SelectSeq(collections, LAMBDA c : c.ownerId = ownerId))

\* a findMany without its where clause
getEveryCollection == Reverse(collections)

\* prisma.collection.findMany({ where: { isPublic: true }, orderBy: { createdAt: "desc" } })
getPublicCollections == Reverse(SelectSeq(collections, LAMBDA c : c.isPublic))

\* a mint route that records its transaction as settled
MintTransactionConfirmed(txHash, userId, nftId) ==
    [txHash |-> txHash, type |-> "mint", status |-> "confirmed", userId |-> userId,
     nftId |-> nftId]

\* the record createTransaction is asked to store by the mint route
MintTransaction(txHash, userId, nftId) ==
    [txHash |-> txHash, type |-> "mint", status |-> "pending", userId |-> userId, nftId |-> nftId]

\* the unique index on txHash rejects a second record with the same hash
TxHashTaken(txHash) == \E i \in 1..Len(transactions) : transactions[i].txHash = txHash

NoMint == [user |-> NoAuth, body |-> <<>>, reads |-> 0, writes |-> 0, updated |-> <<>>]
NoResponse ==
    [route |-> "none", user |-> NoAuth, authChecked |-> FALSE, body |-> <<>>, status |-> 0,
     error |-> "", details |-> FALSE, result |-> <<>>, reads |-> 0, writes |-> 0]

\* NextResponse.json(...): the response to a request, and what the request did to get there
Response(route, user, authChecked, body, status, error, details, result, reads, writes) ==
    [route |-> route, user |-> user, authChecked |-> authChecked, body |-> body,
     status |-> status, error |-> error, details |-> details, result |-> result,
     reads |-> reads, writes |-> writes]

\* { error: "Unauthorized" }, { status: 401 }
Unauthorized(route) ==
    Response(route, NoAuth, TRUE, <<>>, 401, "Unauthorized", FALSE, <<>>, 0, 0)

\* the catch block: a ZodError gives 400 with details, anything else 500
Caught(route, user, body, zodError, reads, writes) ==
    IF zodError
    THEN Response(route, user, TRUE, body, 400, "Invalid request data", TRUE, <<>>, reads, writes)
    ELSE Response(route, user, TRUE, body, 500, "Internal server error", FALSE, <<>>, reads, writes)

\* ---------------------------------------------------------------- Init
Init ==
    /\ users = <<>>
    /\ now = 0
    /\ pc = [p \in Procs |-> "idle"]
    /\ local = [p \in Procs |-> NoLocal]
    /\ last = [p \in Procs |-> NoRequest]
    /\ nRequests = 0
    /\ nFailures = 0
    /\ appendLog = [id \in UserIds |-> <<>>]
    /\ loginCalls = [id \in UserIds |-> 0]
    /\ nOverlaps = 0
    /\ nonceStore = [a \in Addrs |-> NoNonce]
    /\ nonceSeq = 0
    /\ issuedLog = [a \in Addrs |-> <<>>]
    /\ lastAttempt = NoAttempt
    /\ nAttempts = 0
    /\ successes = [n \in 1..MaxNonces |-> 0]
    /\ failures = [a \in Addrs |-> {}]
    /\ nfts = <<>>
    /\ collections = <<>>
    /\ transactions = <<>>
    /\ rpc = [p \in Procs |-> "idle"]
    /\ rlocal = [p \in Procs |-> NoMint]
    /\ lastResp = NoResponse

\* ------------------------------------------------------------- actions
Tick ==
    /\ now < MaxTime
    /\ now' = now + 1
    /\ UNCHANGED <<users, pc, local, last, nRequests, nFailures, appendLog, loginCalls, nOverlaps>>
    /\ UNCHANGED <<nonceVars, routeVars>>

\* createUser(walletAddress) for request r: prisma.user.create, which throws on a duplicate
\* address; next is where a login goes on after it
createUser(p, r, next) ==
    IF UniqueViolation(r.walletAddress)
    THEN /\ Finish(p, r, "unique", FALSE)
         /\ UNCHANGED users
    ELSE /\ Len(users) < MaxUsers
         /\ users' = Append(users, NewUser(r.walletAddress))
         /\ IF next = "idle"
            THEN Finish(p, [r EXCEPT !.userId = Len(users) + 1], "none", FALSE)
            ELSE Goto(p, [r EXCEPT !.userId = Len(users) + 1], next)

\* addConnectionHistory(userId, connectionData) for request r, up to its first await:
\* findUnique({ where: { id: userId } }), throwing "User not found" on null
addConnectionHistoryRead(p, r) ==
    IF getUserById(r.userId) = NoUser
    THEN /\ Finish(p, r, "notfound", FALSE)
         /\ UNCHANGED nOverlaps
    ELSE /\ Goto(p, [r EXCEPT !.history = users[r.userId].connectionHistory], "add_update")
         /\ IF \E q \in Procs : pc[q] = "add_update"
            THEN nOverlaps < MaxOverlaps /\ nOverlaps' = nOverlaps + 1
            ELSE UNCHANGED nOverlaps

\* a login request arrives and runs findUserByWalletAddress(walletAddress); it goes on to
\* createUser when there is no such user, and to updateUserLogin otherwise
Login(p) ==
    /\ pc[p] = "idle" /\ nRequests < MaxRequests
    /\ \E walletAddress \in Addrs, connectionData \in ConnectionDatas(nRequests + 1) :
         LET id == findUserByWalletAddress(walletAddress)
             r == [NoLocal EXCEPT !.kind = "login", !.walletAddress = walletAddress,
                                  !.connectionData = connectionData]
         IN IF id = NoUser
            THEN Goto(p, r, "create")
            ELSE Goto(p, [r EXCEPT !.userId = id, !.found = TRUE], "update")
    /\ nRequests' = nRequests + 1
    /\ UNCHANGED <<users, now, nFailures, appendLog, loginCalls, nOverlaps>>
    /\ UNCHANGED <<nonceVars, routeVars>>

\* the login's createUser(walletAddress)
LoginCreateUser(p) ==
    /\ pc[p] = "create"
    /\ createUser(p, local[p], "update")
    /\ UNCHANGED <<now, nRequests, nFailures, appendLog, loginCalls, nOverlaps>>
    /\ UNCHANGED <<nonceVars, routeVars>>

\* updateUserLogin(userId): one prisma.user.update with an atomic increment
UpdateUserLogin(p) ==
    /\ pc[p] = "update"
    /\ LET userId == local[p].userId
       IN IF getUserById(userId) = NoUser
          THEN /\ Finish(p, local[p], "notfound", FALSE)
               /\ UNCHANGED <<users, loginCalls>>
          ELSE /\ users' = [users EXCEPT ![userId] = LoginUpdate(@, now)]
               /\ loginCalls' = [loginCalls EXCEPT ![userId] = @ + 1]
               /\ Goto(p, [local[p] EXCEPT !.incremented = TRUE], "add_read")
    /\ UNCHANGED <<now, nRequests, nFailures, appendLog, nOverlaps>>
    /\ UNCHANGED <<nonceVars, routeVars>>

\* the login's addConnectionHistory(userId, connectionData), first await
LoginAddConnectionHistory(p) ==
    /\ pc[p] = "add_read"
    /\ addConnectionHistoryRead(p, local[p])
    /\ UNCHANGED <<users, now, nRequests, nFailures, appendLog, loginCalls>>
    /\ UNCHANGED <<nonceVars, routeVars>>

\* addConnectionHistory, second await: update({ data: { connectionHistory: updatedHistory } })
AddConnectionHistoryUpdate(p) ==
    /\ pc[p] = "add_update"
    /\ LET userId == local[p].userId
           updatedHistory == UpdatedHistory(local[p].history, local[p].connectionData, now)
       IN /\ users' = [users EXCEPT ![userId] = HistoryUpdate(@, updatedHistory)]
          /\ appendLog' = [appendLog EXCEPT ![userId] =
                 Append(@, HistoryEntry(local[p].connectionData, now))]
          /\ Finish(p, local[p], "none", TRUE)
    /\ UNCHANGED <<now, nRequests, nFailures, loginCalls, nOverlaps>>
    /\ UNCHANGED <<nonceVars, routeVars>>

\* the database operation p is about to run rejects with a storage error; nothing is written
StorageFailure(p) ==
    /\ pc[p] # "idle" /\ nFailures < MaxFailures
    /\ Finish(p, local[p], "storage", FALSE)
    /\ nFailures' = nFailures + 1
    /\ UNCHANGED <<users, now, nRequests, appendLog, loginCalls, nOverlaps>>
    /\ UNCHANGED <<nonceVars, routeVars>>

Next ==
    \/ Tick
    \/ \E p \in Procs : Login(p)
    \/ \E p \in Procs : LoginCreateUser(p)
    \/ \E p \in Procs : UpdateUserLogin(p)
    \/ \E p \in Procs : LoginAddConnectionHistory(p)
    \/ \E p \in Procs : AddConnectionHistoryUpdate(p)
    \/ \E p \in Procs : StorageFailure(p)

Spec == Init /\ [][Next]_vars

\* ------------------------------------------- direct calls of the repository
\* createUser(walletAddress) called on its own
CallCreateUser(p) ==
    /\ pc[p] = "idle" /\ nRequests < MaxCreateCalls
    /\ \E walletAddress \in Addrs :
         createUser(p, [NoLocal EXCEPT !.kind = "createUser", !.walletAddress = walletAddress],
                    "idle")
    /\ nRequests' = nRequests + 1
    /\ UNCHANGED <<now, nFailures, appendLog, loginCalls, nOverlaps>>
    /\ UNCHANGED <<nonceVars, routeVars>>

\* addConnectionHistory(userId, connectionData) called on its own
CallAddConnectionHistory(p) ==
    /\ pc[p] = "idle" /\ nRequests < MaxHistoryCalls
    /\ \E userId \in HistoryUsers, connectionData \in ConnectionDatas(nRequests + 1) :
         addConnectionHistoryRead(p,
             [NoLocal EXCEPT !.kind = "addConnectionHistory", !.userId = userId,
                             !.connectionData = connectionData])
    /\ nRequests' = nRequests + 1
    /\ UNCHANGED <<users, now, nFailures, appendLog, loginCalls>>
    /\ UNCHANGED <<nonceVars, routeVars>>

NextHistory ==
    \/ \E p \in Procs : CallCreateUser(p)
    \/ \E p \in Procs : CallAddConnectionHistory(p)
    \/ \E p \in Procs : AddConnectionHistoryUpdate(p)

SpecHistory == Init /\ [][NextHistory]_vars

\* addConnectionHistory(userId, connectionData) called on its own with any of EntryDatas
CallAddConnectionHistoryData(p) ==
    /\ pc[p] = "idle" /\ nRequests < MaxEntryCalls
    /\ \E userId \in HistoryUsers, connectionData \in EntryDatas(nRequests + 1) :
         addConnectionHistoryRead(p,
             [NoLocal EXCEPT !.kind = "addConnectionHistory", !.userId = userId,
                             !.connectionData = connectionData])
    /\ nRequests' = nRequests + 1
    /\ UNCHANGED <<users, now, nFailures, appendLog, loginCalls>>
    /\ UNCHANGED <<nonceVars, routeVars>>

NextEntry ==
    \/ Tick
    \/ \E p \in Procs : CallCreateUser(p)
    \/ \E p \in Procs : CallAddConnectionHistoryData(p)
    \/ \E p \in Procs : AddConnectionHistoryUpdate(p)

SpecEntry == Init /\ [][NextEntry]_vars

\* ----------------------------------------------------- nonce store actions
NonceTick ==
    /\ now < MaxNonceTime
    /\ now' = now + 1
    /\ UNCHANGED <<routeVars, repoVars, nonceVars>>

\* issueNonce(walletAddress): a fresh nonce, stored over any prior one of the address
IssueNonce(walletAddress) ==
    /\ nonceSeq < MaxNonces
    /\ nonceSeq' = nonceSeq + 1
    /\ nonceStore' = StoreNonce(nonceStore, walletAddress,
                                NonceRecord(walletAddress, nonceSeq + 1, now))
    /\ issuedLog' = [issuedLog EXCEPT ![walletAddress] = Append(@, nonceSeq + 1)]
    /\ failures' = [failures EXCEPT ![walletAddress] = {}]
    /\ UNCHANGED <<routeVars, repoVars, now, lastAttempt, nAttempts, successes>>

\* consumeNonce(walletAddress, presentedMessage): the checks and the marking are one step
ConsumeNonce(walletAddress, presentedMessage) ==
    /\ nAttempts < MaxAttempts
    /\ LET outcome == ConsumeOutcome(nonceStore, walletAddress, presentedMessage, now)
           r == nonceStore[walletAddress]
       IN /\ lastAttempt' =
                 [walletAddress |-> walletAddress, message |-> presentedMessage,
                  outcome |-> outcome, stored |-> r, at |-> now,
                  latest |-> Latest(issuedLog[walletAddress]),
                  after |-> failures[walletAddress]]
          /\ IF outcome = "ok"
             THEN /\ nonceStore' = MarkConsumed(nonceStore, walletAddress)
                  /\ successes' = [successes EXCEPT ![r.nonce] = @ + 1]
                  /\ UNCHANGED failures
             ELSE /\ failures' = [failures EXCEPT ![walletAddress] = @ \cup {outcome}]
                  /\ UNCHANGED <<nonceStore, successes>>
    /\ nAttempts' = nAttempts + 1
    /\ UNCHANGED <<routeVars, repoVars, now, nonceSeq, issuedLog>>

NextNonce ==
    \/ NonceTick
    \/ \E a \in Addrs : IssueNonce(a)
    \/ \E a \in Addrs : \E m \in PresentableMessages : ConsumeNonce(a, m)

SpecNonce == Init /\ [][NextNonce]_vars

\* ------------------------------------------------------------ API routes
\* a handler without its if (!user) return
AuthFailedNever(auth) == FALSE

\* verifyAuth's result is null: if (!user) return 401
AuthFailed(auth) == auth = NoAuth

\* a mint route without its ownership check
OwnerMismatchNever(nft, userId) == FALSE

\* nft.ownerId !== user.userId
OwnerMismatch(nft, userId) == nft.ownerId # userId

\* a mint route without its already-minted check
AlreadyMintedNever(nft) == FALSE

\* if (nft.isMinted)
AlreadyMinted(nft) == nft.isMinted

\* the mint route with its last two checks in the other order
MintDecisionMintedFirst(auth, body) ==
    IF AuthFailed(auth) THEN "unauthorized"
    ELSE IF ~JsonParses(body) THEN "unparsable"
    ELSE IF ~MintValid(body) THEN "invalid"
    ELSE IF getNFTById(body.nftId) = 0 THEN "notfound"
    ELSE IF AlreadyMinted(nfts[getNFTById(body.nftId)]) THEN "minted"
    ELSE IF OwnerMismatch(nfts[getNFTById(body.nftId)], auth) THEN "forbidden"
    ELSE "pass"

\* the checks of the mint route in the order of its code, and which one ends the request
MintDecision(auth, body) ==
    IF AuthFailed(auth) THEN "unauthorized"
    ELSE IF ~JsonParses(body) THEN "unparsable"
    ELSE IF ~MintValid(body) THEN "invalid"
    ELSE IF getNFTById(body.nftId) = 0 THEN "notfound"
    ELSE IF OwnerMismatch(nfts[getNFTById(body.nftId)], auth) THEN "forbidden"
    ELSE IF AlreadyMinted(nfts[getNFTById(body.nftId)]) THEN "minted"
    ELSE "pass"

\* the handlers that take mint requests, one request at a time each
MintHandlers == {"h1"}

\* the step sends resp; a step that ends in an await sends nothing yet
Respond(resp) == lastResp' = resp
Await == lastResp' = NoResponse

\* GET /api/nfts
GetNfts ==
    /\ \E auth \in AuthResults :
         IF AuthFailed(auth)
         THEN Respond(Unauthorized("GET /api/nfts"))
         ELSE Respond(Response("GET /api/nfts", auth, TRUE, <<>>, 200, "", FALSE,
                               getNFTsByOwner(auth), 1, 0))
    /\ UNCHANGED <<nfts, collections, transactions, rpc, rlocal>>
    /\ UNCHANGED <<repoVars, now, nonceVars>>

\* POST /api/nfts with a body out of bodies
PostNftsOf(bodies) ==
    /\ \E auth \in AuthResults, body \in bodies :
         IF AuthFailed(auth)
         THEN /\ Respond(Unauthorized("POST /api/nfts"))
              /\ UNCHANGED nfts
         ELSE IF ~JsonParses(body) \/ ~CreateNFTValid(body)
         THEN /\ Respond(Caught("POST /api/nfts", auth, body, JsonParses(body), 0, 0))
              /\ UNCHANGED nfts
         ELSE /\ Len(nfts) + Len(collections) < MaxRecords
              /\ LET data == NftData(auth, body)
                     nft == createNFT(data.ownerId, data.collectionId)
                 IN /\ nfts' = Append(nfts, nft)
                    /\ Respond(Response("POST /api/nfts", auth, TRUE, body, 201, "", FALSE,
                                        nft, 0, 1))
    /\ UNCHANGED <<collections, transactions, rpc, rlocal>>
    /\ UNCHANGED <<repoVars, now, nonceVars>>

\* POST /api/nfts
PostNfts == PostNftsOf(NftBodies)

\* POST /api/nfts with a collectionId
PostNftsAttach == PostNftsOf(AttachBodies)

\* GET /api/collections: with public=true the public collections, without verifyAuth
GetCollections ==
    /\ \E auth \in AuthResults, isPublic \in BOOLEAN :
         IF isPublic
         THEN Respond(Response("GET /api/collections?public=true", auth, FALSE, <<>>, 200, "",
                               FALSE, getPublicCollections, 1, 0))
         ELSE IF AuthFailed(auth)
         THEN Respond(Unauthorized("GET /api/collections"))
         ELSE Respond(Response("GET /api/collections", auth, TRUE, <<>>, 200, "", FALSE,
                               getCollectionsByOwner(auth), 1, 0))
    /\ UNCHANGED <<nfts, collections, transactions, rpc, rlocal>>
    /\ UNCHANGED <<repoVars, now, nonceVars>>

\* POST /api/collections
PostCollections ==
    /\ \E auth \in AuthResults, body \in CollectionBodies :
         IF AuthFailed(auth)
         THEN /\ Respond(Unauthorized("POST /api/collections"))
              /\ UNCHANGED collections
         ELSE IF ~JsonParses(body) \/ ~CreateCollectionValid(body)
         THEN /\ Respond(Caught("POST /api/collections", auth, body, JsonParses(body), 0, 0))
              /\ UNCHANGED collections
         ELSE /\ Len(nfts) + Len(collections) < MaxRecords
              /\ collections' = Append(collections, createCollection(auth, ParsedIsPublic(body)))
              /\ Respond(Response("POST /api/collections", auth, TRUE, body, 201, "", FALSE,
                                  createCollection(auth, ParsedIsPublic(body)), 0, 1))
    /\ UNCHANGED <<nfts, transactions, rpc, rlocal>>
    /\ UNCHANGED <<repoVars, now, nonceVars>>

\* POST /api/nfts/mint up to its first database await: verifyAuth, request.json(),
\* mintNFTSchema.parse, getNFTById and the three checks on its result
Mint(p) ==
    /\ rpc[p] = "idle"
    /\ \E auth \in AuthResults, body \in MintBodies :
         LET route == "POST /api/nfts/mint"
             decision == MintDecision(auth, body)
             Stop(resp) == Respond(resp) /\ UNCHANGED <<rpc, rlocal>>
             Error(status, error) ==
                 Stop(Response(route, auth, TRUE, body, status, error, FALSE, <<>>, 1, 0))
         IN IF decision = "unauthorized" THEN Stop(Unauthorized(route))
            ELSE IF decision \in {"unparsable", "invalid"}
            THEN Stop(Caught(route, auth, body, decision = "invalid", 0, 0))
            ELSE IF decision = "notfound" THEN Error(404, "NFT not found")
            ELSE IF decision = "forbidden"
            THEN Error(403, "You can only mint your own NFTs")
            ELSE IF decision = "minted" THEN Error(400, "NFT is already minted")
            ELSE /\ rpc' = [rpc EXCEPT ![p] = "mint_update"]
                 /\ rlocal' = [rlocal EXCEPT ![p] =
                        [NoMint EXCEPT !.user = auth, !.body = body, !.reads = 1]]
                 /\ Await
    /\ UNCHANGED <<nfts, collections, transactions>>
    /\ UNCHANGED <<repoVars, now, nonceVars>>

\* the mint route's updateNFTMintStatus(nftId, tokenId, contractAddress)
MintUpdate(p) ==
    /\ rpc[p] = "mint_update"
    /\ LET body == rlocal[p].body
           i == getNFTById(body.nftId)
           updatedNFT == updateNFTMintStatus(nfts[i], body.tokenId, body.contractAddress, now)
       IN /\ nfts' = [nfts EXCEPT ![i] = updatedNFT]
          /\ rlocal' = [rlocal EXCEPT ![p].updated = updatedNFT, ![p].writes = @ + 1]
    /\ rpc' = [rpc EXCEPT ![p] = "mint_tx"]
    /\ Await
    /\ UNCHANGED <<collections, transactions>>
    /\ UNCHANGED <<repoVars, now, nonceVars>>

\* the mint route's createTransaction and its response; a txHash already recorded makes
\* prisma.transaction.create throw, which the catch block turns into 500
MintCreateTransaction(p) ==
    /\ rpc[p] = "mint_tx"
    /\ LET r == rlocal[p]
           route == "POST /api/nfts/mint"
       IN IF TxHashTaken(r.body.txHash)
          THEN /\ Respond(Caught(route, r.user, r.body, FALSE, r.reads, r.writes))
               /\ UNCHANGED transactions
          ELSE /\ transactions' =
                      Append(transactions, MintTransaction(r.body.txHash, r.user, r.body.nftId))
               /\ Respond(Response(route, r.user, TRUE, r.body, 200, "", FALSE, r.updated,
                                   r.reads, r.writes + 1))
    /\ rpc' = [rpc EXCEPT ![p] = "idle"]
    /\ rlocal' = [rlocal EXCEPT ![p] = NoMint]
    /\ UNCHANGED <<nfts, collections>>
    /\ UNCHANGED <<repoVars, now, nonceVars>>

\* the write the mint route is about to run rejects with a storage error; nothing is
\* written by it and the catch block answers 500
MintStorageFailure(p) ==
    /\ rpc[p] # "idle"
    /\ Respond(Caught("POST /api/nfts/mint", rlocal[p].user, rlocal[p].body, FALSE,
                      rlocal[p].reads, rlocal[p].writes))
    /\ rpc' = [rpc EXCEPT ![p] = "idle"]
    /\ rlocal' = [rlocal EXCEPT ![p] = NoMint]
    /\ UNCHANGED <<nfts, collections, transactions>>
    /\ UNCHANGED <<repoVars, now, nonceVars>>

NextRoutes ==
    \/ GetNfts
    \/ PostNfts
    \/ GetCollections
    \/ PostCollections
    \/ \E p \in MintHandlers : Mint(p)
    \/ \E p \in MintHandlers : MintUpdate(p)
    \/ \E p \in MintHandlers : MintCreateTransaction(p)
    \/ \E p \in MintHandlers : MintStorageFailure(p)

SpecRoutes == Init /\ [][NextRoutes]_vars

\* NFTs are created and two handlers take mint requests, so that mints overlap
NextMintRace ==
    \/ PostNfts
    \/ \E p \in Procs : Mint(p)
    \/ \E p \in Procs : MintUpdate(p)
    \/ \E p \in Procs : MintCreateTransaction(p)

SpecMintRace == Init /\ [][NextMintRace]_vars

\* collections are created and NFTs are created into them
NextAttach ==
    \/ PostCollections
    \/ PostNftsAttach

SpecAttach == Init /\ [][NextAttach]_vars

TypeOK ==
    /\ Len(users) <= MaxUsers
    /\ now \in 0..MaxTime
    /\ \A p \in Procs : pc[p] \in {"idle", "create", "update", "add_read", "add_update"}

\* ------------------------------------------------------------------ claims
InHistory(id, entry) ==
    \E i \in 1..Len(users[id].connectionHistory) : users[id].connectionHistory[i] = entry

\* the last min(k, 10) of the k entries of log, in insertion order
MostRecent(log) ==
    LET k == Len(log)
        m == IF k < HistoryLimit THEN k ELSE HistoryLimit
    IN [i \in 1..m |-> log[k - m + i]]

\* p and q have each completed an addConnectionHistory call on the same user, and no more
\* than 10 calls on that user have completed, so that no entry is due for eviction
BothAppended(p, q) ==
    /\ p # q
    /\ last[p].appended /\ last[q].appended
    /\ last[p].userId = last[q].userId
    /\ Len(appendLog[last[p].userId]) <= HistoryLimit

\* C1: two addConnectionHistory calls on the same user never lose an update: once both
\* have completed, both appended entries are in connectionHistory, however they interleaved.
C1_NoLostUpdate ==
    \A p, q \in Procs :
        BothAppended(p, q) =>
            /\ InHistory(last[p].userId, last[p].entry)
            /\ InHistory(last[q].userId, last[q].entry)

\* C2: in every reachable state, under any interleaving of createUser and
\* addConnectionHistory calls, each user's connectionHistory holds at most 10 entries.
C2_HistoryAtMostTen ==
    \A id \in DOMAIN users : Len(users[id].connectionHistory) <= HistoryLimit

\* an eleventh entry was appended and the history was cut back to 10
C2_Witness ==
    \E id \in DOMAIN users :
        /\ Len(appendLog[id]) > HistoryLimit
        /\ Len(users[id].connectionHistory) = HistoryLimit
        /\ nOverlaps > 0

\* C3: after k addConnectionHistory calls that ran one after the other on a newly created
\* user, connectionHistory is exactly the last min(k, 10) appended entries in insertion order.
C3_SequentialFifo ==
    nOverlaps = 0 =>
        \A id \in DOMAIN users : users[id].connectionHistory = MostRecent(appendLog[id])

\* after 11 sequential calls the first entry is gone and the second one is the oldest
C3_Witness ==
    /\ nOverlaps = 0
    /\ \E id \in DOMAIN users :
        /\ Len(appendLog[id]) = HistoryLimit + 1
        /\ ~InHistory(id, appendLog[id][1])
        /\ users[id].connectionHistory[1] = appendLog[id][2]
        /\ users[id].connectionHistory[HistoryLimit] = appendLog[id][HistoryLimit + 1]

\* C4: for any interleaving of N updateUserLogin calls on a user, loginCount is exactly N
\* higher than the 0 the user was created with.
C4_LoginCountExact ==
    \A id \in DOMAIN users : users[id].loginCount = loginCalls[id]

\* two logins of one user are in flight together, both past their updateUserLogin
C4_Witness ==
    \E id \in DOMAIN users :
        /\ users[id].loginCount >= 2
        /\ \A p \in Procs :
            pc[p] \in {"add_read", "add_update"} /\ local[p].userId = id /\ local[p].incremented

C6_NoDuplicateKeyError ==
    \A p \in Procs : ~(last[p].kind = "login" /\ last[p].err = "unique")

\* C7: login recording is all-or-nothing: a login request that has ended, by returning or
\* by throwing, has incremented loginCount if and only if it has appended its history entry.
C7_AllOrNothing ==
    \A p \in Procs : last[p].kind = "login" => (last[p].incremented <=> last[p].appended)

\* C8: a freshly issued nonce is consumed exactly once: no nonce is consumed twice, and of
\* the attempts presenting the stored, unexpired nonce with its message, the one that finds it
\* unconsumed succeeds and every one that finds it consumed fails with ChallengeAlreadyUsed.
C8_ConsumedExactlyOnce ==
    /\ \A n \in 1..MaxNonces : successes[n] <= 1
    /\ (/\ lastAttempt.stored # NoNonce
        /\ lastAttempt.message = lastAttempt.stored.message
        /\ lastAttempt.at <= lastAttempt.stored.expiresAt)
       => lastAttempt.outcome =
              IF lastAttempt.stored.consumed THEN "ChallengeAlreadyUsed" ELSE "ok"

\* a nonce was consumed and a second attempt with its message was turned away
C8_Witness ==
    /\ lastAttempt.outcome = "ChallengeAlreadyUsed"
    /\ successes[lastAttempt.stored.nonce] = 1
    /\ lastAttempt.message = lastAttempt.stored.message

\* C9: at most one unconsumed, unexpired nonce is usable per wallet address: only the nonce
\* issued last for an address can be consumed, so a consumeNonce with an earlier challenge
\* message never succeeds.
C9_OnlyLatestNonceUsable ==
    /\ \A a \in Addrs : \A i \in 1..Len(issuedLog[a]) :
           ConsumeOutcome(nonceStore, a, Render(a, issuedLog[a][i]), now) = "ok"
               => i = Len(issuedLog[a])
    /\ lastAttempt.outcome = "ok" => lastAttempt.stored.nonce = lastAttempt.latest

\* a second nonce was issued for an address and the first one's message was turned away
C9_Witness ==
    /\ lastAttempt.outcome = "ChallengeMismatch"
    /\ ~lastAttempt.stored.consumed
    /\ Len(issuedLog[lastAttempt.walletAddress]) >= 2
    /\ lastAttempt.message =
           Render(lastAttempt.walletAddress, issuedLog[lastAttempt.walletAddress][1])

C18_LoginCountNeverDecreases ==
    [][ \A id \in DOMAIN users :
            id \in DOMAIN users' /\ users'[id].loginCount >= users[id].loginCount ]_vars

\* a user was logged in twice and had a connection appended in between or after
C18_Witness ==
    \E id \in DOMAIN users :
        users[id].loginCount >= 2 /\ Len(users[id].connectionHistory) >= 1

\* C19: user records are never deleted and keep their id and walletAddress: every id on
\* record before a step is on record after it, with the same walletAddress.
C19_UsersKeepIdentity ==
    [][ \A id \in DOMAIN users :
            id \in DOMAIN users' /\ users'[id].walletAddress = users[id].walletAddress ]_vars

\* two users are on record, the first one updated by a login and by an appended connection
C19_Witness ==
    /\ Len(users) = 2 /\ users[1].walletAddress # users[2].walletAddress
    /\ users[1].loginCount >= 1 /\ Len(users[1].connectionHistory) >= 1

\* C20: the entry an addConnectionHistory call appends carries the server's time of the
\* write as timestamp, whatever timestamp connectionData held, and every other attribute of
\* connectionData unchanged, and nothing else.
C20_ServerTimestamp ==
    [][ \A p \in Procs :
            (pc[p] = "add_update" /\ pc'[p] = "idle" /\ last'[p].appended) =>
                LET history == users'[local[p].userId].connectionHistory
                    entry == history[Len(history)]
                    connectionData == local[p].connectionData
                IN /\ DOMAIN entry = (DOMAIN connectionData) \cup {"timestamp"}
                   /\ entry.timestamp = now
                   /\ \A k \in (DOMAIN connectionData) \ {"timestamp"} :
                          entry[k] = connectionData[k] ]_vars

\* a call whose connectionData held a timestamp and an ip was appended after the clock moved
C20_Witness ==
    \E p \in Procs :
        /\ last[p].appended /\ {"timestamp", "ip"} \subseteq DOMAIN last[p].data
        /\ last[p].data.timestamp = ClientTime
        /\ last[p].entry.timestamp = now /\ now > 0
        /\ last[p].entry.ip = last[p].data.ip
        /\ InHistory(last[p].userId, last[p].entry)

\* ------------------------------------------------------------ route claims
MintRoute == "POST /api/nfts/mint"
ProtectedRoutes ==
    {"GET /api/nfts", "POST /api/nfts", MintRoute, "POST /api/collections",
     "GET /api/collections"}
PostRoutes == {"POST /api/nfts", MintRoute, "POST /api/collections"}

\* resp answers a mint request of a verified user whose body names an NFT on record
MintOfKnownNft(resp) ==
    /\ resp.route = MintRoute /\ resp.user # NoAuth
    /\ JsonParses(resp.body) /\ MintValid(resp.body)
    /\ getNFTById(resp.body.nftId) # 0

\* the NFT a mint body names
NamedNft(body) == nfts[getNFTById(body.nftId)]

HasTransaction(nftId) == \E t \in 1..Len(transactions) : transactions[t].nftId = nftId

\* C11: every protected handler answers a request for which verifyAuth yields no user with
\* 401, after no database read and no write: the step leaves nfts, collections and
\* transactions as they were, and no request without a user is ever in flight.
C11_UnauthenticatedIs401 ==
    [][ /\ (lastResp'.route \in ProtectedRoutes /\ lastResp'.user = NoAuth) =>
             /\ lastResp'.status = 401
             /\ lastResp'.reads = 0 /\ lastResp'.writes = 0
             /\ UNCHANGED <<nfts, collections, transactions>>
        /\ \A p \in Procs : rpc'[p] # "idle" => rlocal'[p].user # NoAuth ]_vars

\* a mint request without a user was turned away while there was an NFT to read
C11_Witness ==
    /\ lastResp.route = MintRoute /\ lastResp.status = 401
    /\ Len(nfts) > 0 /\ ~nfts[1].isMinted

\* C12: a mint request of a user who does not own the named NFT is answered 403 by a step
\* that leaves the NFT records and the transaction records unchanged; no mint request gets
\* past its checks for an NFT of another owner, and every mint transaction on record is its
\* NFT owner's.
C12_NonOwnerNeverMints ==
    [][ /\ (MintOfKnownNft(lastResp) /\ NamedNft(lastResp.body).ownerId # lastResp.user)' =>
             /\ lastResp'.status = 403
             /\ UNCHANGED <<nfts, transactions>>
        /\ \A p \in Procs :
             rpc'[p] # "idle" => (NamedNft(rlocal[p].body).ownerId = rlocal[p].user)'
        /\ \A t \in 1..Len(transactions') :
             \E i \in 1..Len(nfts') :
                 /\ nfts'[i].id = transactions'[t].nftId
                 /\ nfts'[i].ownerId = transactions'[t].userId ]_vars

\* a user asked to mint another user's unminted NFT and got 403
C12_Witness ==
    /\ MintOfKnownNft(lastResp) /\ lastResp.status = 403
    /\ NamedNft(lastResp.body).ownerId # lastResp.user
    /\ ~NamedNft(lastResp.body).isMinted /\ ~HasTransaction(lastResp.body.nftId)

\* C13: the mint route's two writes take effect together or not at all: after a mint request
\* that ended in an error response, the NFT it named is not left with isMinted = true and no
\* transaction record.
C13_MintWritesTransactional ==
    (MintOfKnownNft(lastResp) /\ lastResp.status >= 400) =>
        (NamedNft(lastResp.body).isMinted => HasTransaction(lastResp.body.nftId))

\* resp answers a POST of a verified user whose body is no JSON or fails the route's schema
InvalidBody(resp) ==
    /\ resp.route \in PostRoutes /\ resp.user # NoAuth
    /\ \/ ~JsonParses(resp.body)
       \/ resp.route = "POST /api/nfts" /\ ~CreateNFTValid(resp.body)
       \/ resp.route = MintRoute /\ ~MintValid(resp.body)
       \/ resp.route = "POST /api/collections" /\ ~CreateCollectionValid(resp.body)

\* C14: an authenticated POST to /api/nfts, /api/nfts/mint or /api/collections whose body is
\* malformed or schema-invalid is answered 400 with an error text, and has written nothing.
C14_InvalidBodyIs400 ==
    InvalidBody(lastResp) =>
        lastResp.status = 400 /\ lastResp.error # "" /\ lastResp.writes = 0

\* C15: GET /api/collections?public=true answers 200 whatever verifyAuth would yield, never
\* consults it, and returns exactly the collections on record whose isPublic is true.
C15_PublicListing ==
    lastResp.route = "GET /api/collections?public=true" =>
        /\ lastResp.status = 200 /\ ~lastResp.authChecked
        /\ \A i \in 1..Len(lastResp.result) : lastResp.result[i].isPublic
        /\ \A c \in 1..Len(collections) :
             collections[c].isPublic =>
                 \E i \in 1..Len(lastResp.result) : lastResp.result[i] = collections[c]

\* a caller without a credential listed the public collections while a private one existed
C15_Witness ==
    /\ lastResp.route = "GET /api/collections?public=true" /\ lastResp.user = NoAuth
    /\ Len(lastResp.result) = 1 /\ Len(collections) = 2

C17_MintRecordsRequest ==
    [][ /\ \A p \in Procs :
             LET body == rlocal[p].body
             IN /\ (rpc[p] = "mint_update" /\ rpc'[p] = "mint_tx") =>
                      /\ NamedNft(body)'.isMinted
                      /\ NamedNft(body)'.tokenId = body.tokenId
                      /\ NamedNft(body)'.contractAddress = body.contractAddress
                      /\ transactions' = transactions
                /\ (rpc[p] = "mint_tx" /\ rpc'[p] = "idle" /\ lastResp'.status = 200) =>
                      /\ transactions' = Append(transactions,
                             [txHash |-> body.txHash, type |-> "mint", status |-> "pending",
                              userId |-> rlocal[p].user, nftId |-> body.nftId])
                      /\ nfts' = nfts
        /\ Len(transactions') >= Len(transactions)
        /\ \A t \in 1..Len(transactions) : transactions'[t] = transactions[t] ]_vars

\* two mints succeeded, the second one with the other reported txHash and tokenId
C17_Witness ==
    /\ lastResp.route = MintRoute /\ lastResp.status = 200
    /\ Len(transactions) = 2
    /\ lastResp.result.tokenId = lastResp.body.tokenId
    /\ transactions[2].txHash = lastResp.body.txHash

\* the transactions on record for an NFT
TransactionsOf(nftId) == { t \in 1..Len(transactions) : transactions[t].nftId = nftId }

\* C21: however mint requests of the owner for the same unminted NFT interleave, at most
\* one of them succeeds: no NFT ever has more than one mint transaction on record.
C21_OneMintPerNft ==
    \A i \in 1..Len(nfts) : Cardinality(TransactionsOf(nfts[i].id)) <= 1

\* the step answers, at once, a mint request of a verified user whose valid body names an
\* NFT that was minted before the step
AnswersRemint ==
    /\ MintOfKnownNft(lastResp') /\ UNCHANGED rpc
    /\ NamedNft(lastResp'.body).isMinted

\* no mint request gets past its checks for an NFT that is minted already
NoRemintPasses ==
    \A p \in Procs :
        (rpc[p] = "idle" /\ rpc'[p] = "mint_update") => ~NamedNft(rlocal'[p].body).isMinted

\* C22 as claimed: with no two mint requests overlapping, every mint request for an NFT whose
\* isMinted is true is answered 400 and leaves the NFT records and the transaction records
\* unchanged.
C22_RemintIs400 ==
    [][ /\ AnswersRemint => (lastResp'.status = 400 /\ UNCHANGED <<nfts, transactions>>)
        /\ NoRemintPasses ]_vars

\* C22 as amended: with no two mint requests overlapping, a mint request of the owner for an
\* NFT whose isMinted is true is answered 400, and a mint request of any verified user for
\* such an NFT leaves the NFT records and the transaction records unchanged.
C22_OwnerRemintIs400 ==
    [][ /\ AnswersRemint =>
             /\ UNCHANGED <<nfts, transactions>>
             /\ NamedNft(lastResp'.body).ownerId = lastResp'.user => lastResp'.status = 400
        /\ NoRemintPasses ]_vars

\* the owner asked to mint their minted NFT again, with another tokenId, and got 400
C22_Witness ==
    /\ MintOfKnownNft(lastResp) /\ lastResp.status = 400
    /\ lastResp.error = "NFT is already minted"
    /\ NamedNft(lastResp.body).ownerId = lastResp.user
    /\ NamedNft(lastResp.body).isMinted
    /\ NamedNft(lastResp.body).tokenId # lastResp.body.tokenId

\* C23: an NFT is created with isMinted = false, an NFT whose isMinted is true keeps it true
\* across every step, and every NFT whose isMinted is true has its tokenId, contractAddress
\* and mintedAt set.
C23_MintedMonotone ==
    [][ /\ Len(nfts') >= Len(nfts)
        /\ \A i \in 1..Len(nfts') :
             /\ i > Len(nfts) => ~nfts'[i].isMinted
             /\ (i <= Len(nfts) /\ nfts[i].isMinted) => nfts'[i].isMinted
             /\ nfts'[i].isMinted =>
                    /\ nfts'[i].tokenId # NoValue
                    /\ nfts'[i].contractAddress # NoValue
                    /\ nfts'[i].mintedAt # NoTime ]_vars

\* one NFT is minted, and another one was created after that and is not
C23_Witness ==
    /\ Len(nfts) = 2 /\ nfts[1].isMinted /\ ~nfts[2].isMinted
    /\ nfts[1].mintedAt = now /\ nfts[2].mintedAt = NoTime

\* the step answers a create request with 201
Created(route) == lastResp'.route = route /\ lastResp'.status = 201

\* C24: every NFT created through POST /api/nfts and every collection created through
\* POST /api/collections has the caller's id as ownerId, whatever the body holds, records
\* appear through these two routes only, and no step changes the ownerId of a record.
C24_OwnerIsCaller ==
    [][ /\ Len(nfts') > Len(nfts) <=> Created("POST /api/nfts")
        /\ Len(collections') > Len(collections) <=> Created("POST /api/collections")
        /\ Created("POST /api/nfts") =>
             /\ Len(nfts') = Len(nfts) + 1
             /\ nfts'[Len(nfts')].ownerId = lastResp'.user
        /\ Created("POST /api/collections") =>
             /\ Len(collections') = Len(collections) + 1
             /\ collections'[Len(collections')].ownerId = lastResp'.user
        /\ \A i \in 1..Len(nfts) : nfts'[i].ownerId = nfts[i].ownerId
        /\ \A i \in 1..Len(collections) :
             collections'[i].ownerId = collections[i].ownerId ]_vars

\* a user created an NFT with another user's id as ownerId in the body, and owns it
C24_Witness ==
    /\ lastResp.route = "POST /api/nfts" /\ lastResp.status = 201
    /\ Has(lastResp.body, "ownerId") /\ lastResp.body.ownerId # lastResp.user
    /\ nfts[Len(nfts)].ownerId = lastResp.user

\* C25: every NFT whose collectionId is set is attached to a collection on record whose
\* ownerId is the NFT's ownerId.
C25_AttachedToOwnCollection ==
    \A i \in 1..Len(nfts) :
        nfts[i].collectionId # NoValue =>
            \E c \in 1..Len(collections) :
                /\ collections[c].id = nfts[i].collectionId
                /\ collections[c].ownerId = nfts[i].ownerId

\* the status the claimed order of checks gives a mint request: credential, body, existence,
\* ownership, already minted; 0 when all five pass
ClaimedMintStatus(user, body) ==
    IF user = NoAuth THEN 401
    ELSE IF ~MintValid(body) THEN 400
    ELSE IF getNFTById(body.nftId) = 0 THEN 404
    ELSE IF NamedNft(body).ownerId # user THEN 403
    ELSE IF NamedNft(body).isMinted THEN 400
    ELSE 0

OthersUnchanged(id) ==
    /\ DOMAIN users' = DOMAIN users
    /\ \A other \in DOMAIN users : other # id => users'[other] = users[other]

\* C27: the step of updateUserLogin changes lastLoginAt and loginCount of its user and
\* nothing else, and the write of addConnectionHistory changes connectionHistory of its user
\* and nothing else: loginCount and lastLoginAt keep the values they have when the write
\* runs, increments made since the call read the history included.
C27_FrameEffects ==
    [][ \A p \in Procs :
          LET id == local[p].userId
          IN /\ (pc[p] = "update" /\ pc'[p] = "add_read") =>
                   /\ users'[id].connectionHistory = users[id].connectionHistory
                   /\ users'[id].walletAddress = users[id].walletAddress
                   /\ OthersUnchanged(id)
             /\ (pc[p] = "add_update" /\ pc'[p] = "idle" /\ last'[p].appended) =>
                   /\ users'[id].loginCount = users[id].loginCount
                   /\ users'[id].lastLoginAt = users[id].lastLoginAt
                   /\ users'[id].walletAddress = users[id].walletAddress
                   /\ OthersUnchanged(id) ]_vars

\* a login wrote the history of a user while another login of the same user, which had
\* incremented the counter already, was still running; both increments are on record
C27_Witness ==
    \E p, q \in Procs :
        /\ p # q /\ last[p].appended /\ pc[p] = "idle"
        /\ pc[q] \in {"add_read", "add_update"} /\ local[q].userId = last[p].userId
        /\ users[last[p].userId].loginCount = 2
        /\ Len(users[last[p].userId].connectionHistory) = 1
====
